---- MODULE Spec2Model ----
(***************************************************************************)
(* A model of bevy_mod_config: the config tree stored as entities of a     *)
(* world, the derive(Config) spawn / read / changed code, the root         *)
(* registry (init_config_with), the serde_json manager and the egui        *)
(* manager.                                                                *)
(*                                                                         *)
(* Text is modelled as a sequence of atoms.  An atom is either one of the  *)
(* separator characters "." and ":" or an identifier chunk that contains   *)
(* no separator, so that joining with "." and splitting at "." are         *)
(* computed, not assumed.  A path is a sequence of segments, each a text.  *)
(***************************************************************************)
EXTENDS Integers, Sequences, FiniteSets, TLC

\* Number of operations (registrations, edits, loads, dumps, reads) explored per
\* behaviour.
MaxSteps == 4

\* Number of init_config_with calls explored per behaviour.
MaxInits == 2

\* Number of entries in a generated load input.
MaxEntries == 2

VARIABLES
    nodes,          \* the world's config entities: Entity id -> components
    manager_type,   \* the ManagerType resource (app.rs:52-57), NoManager if absent
    root_field,     \* the RootField<C> resources: root type -> spawn handle
    serde_types,    \* Serde::types of the manager instance (serde.rs:89-92), as registered
    last_value,     \* the Local of each ReadConfigChange consumer (app.rs:150)
    last_seen,      \* history: what read() gave when that consumer last called consume_change
    out,            \* what the last operation returned
    steps,          \* operations performed so far
    inits           \* init_config_with calls performed so far

vars == <<nodes, manager_type, root_field, serde_types, last_value, last_seen, out, steps,
          inits>>

-----------------------------------------------------------------------------
(* Values.  Every value is a record of the same shape so that any two      *)
(* values can be compared.                                                 *)

IntV(n) == [t |-> "int", n |-> n, s |-> <<>>]
FloatV(n) == [t |-> "float", n |-> n, s |-> <<>>]
NaNV == [t |-> "nan", n |-> 0, s |-> <<>>]
StrV(s) == [t |-> "str", n |-> 0, s |-> s]
VariantV(ident) == [t |-> "variant", n |-> 0, s |-> <<ident>>]
NoValue == [t |-> "none", n |-> 0, s |-> <<>>]

\* JSON values as serde_json writes and reads them.
JInt(n) == [j |-> "int", n |-> n, s |-> <<>>]
JFloat(n) == [j |-> "float", n |-> n, s |-> <<>>]
JStr(s) == [j |-> "str", n |-> 0, s |-> s]
JNull == [j |-> "null", n |-> 0, s |-> <<>>]

-----------------------------------------------------------------------------
(* The schema: the types that derive(Config) is applied to.                *)

MetadataEntry(path, value) == [path |-> path, value |-> value]
InputField(ident, ty, metadata) == [ident |-> ident, ty |-> ty, metadata |-> metadata]
EnumVariant(ident, fields) == [ident |-> ident, fields |-> fields]

ScalarTypes == {"i32", "u32", "f32", "String"}

\* The upper limit that the schema below puts on VideoSettings::width with
\* #[config(max = ..)].
WidthMax == 4

\* tests/dump_load_json.rs:3-20 (Settings, Color, Rgba); lib.rs:24-28 (VideoSettings,
\* here with a limit on width); Window nests a struct in a struct and holds an f32.
TypeDef(ty) ==
    CASE ty = "Settings" ->
            [kind |-> "struct", variants |-> <<>>, fields |-> <<
                InputField("thickness", "i32", <<MetadataEntry("default", IntV(3))>>),
                InputField("color", "Color", <<>>) >>]
      [] ty = "Color" ->
            [kind |-> "enum", fields |-> <<>>, variants |-> <<
                EnumVariant("White", <<>>),
                EnumVariant("Rgb", << InputField("0", "f32", <<>>),
                                      InputField("1", "f32", <<>>),
                                      InputField("2", "f32", <<>>) >>),
                EnumVariant("Rgba", << InputField("0", "Rgba", <<>>) >>),
                EnumVariant("Named", << InputField("code", "String", <<>>) >>) >>]
      [] ty = "Rgba" ->
            [kind |-> "struct", variants |-> <<>>, fields |-> <<
                InputField("0", "f32", <<>>), InputField("1", "f32", <<>>),
                InputField("2", "f32", <<>>), InputField("3", "f32", <<>>) >>]
      [] ty = "Window" ->
            [kind |-> "struct", variants |-> <<>>, fields |-> <<
                InputField("scale", "f32", <<>>),
                InputField("video", "VideoSettings", <<>>) >>]
      [] ty = "VideoSettings" ->
            [kind |-> "struct", variants |-> <<>>, fields |-> <<
                InputField("width", "u32", <<MetadataEntry("max", IntV(WidthMax))>>),
                InputField("height", "u32", <<>>) >>]
      [] ty = "ColorDiscrim" -> [kind |-> "discrim", variants |-> <<>>, fields |-> <<>>]
      [] OTHER -> [kind |-> "scalar", variants |-> <<>>, fields |-> <<>>]

RootTypes == {"Settings", "Window"}
RootKeys == {<<"ui">>, <<"win">>}
ManagerTypes == {<<"Json", "Egui">>, <<"Json">>}

\* Idents::new: the discriminant type of an enum is {InputIdent}Discrim.
DiscrimTy(ty) == CASE ty = "Color" -> "ColorDiscrim"

\* The enum a discriminant type belongs to.
EnumOf(discrimTy) == CASE discrimTy = "ColorDiscrim" -> "Color"

IsDiscrimTy(ty) == TypeDef(ty).kind = "discrim"

\* The ScalarData<..> component type a scalar field type is stored in.
ScalarDataOf(ty) ==
    IF IsDiscrimTy(ty)
    THEN <<"ScalarData", "EnumDiscriminantWrapper", ty>>
    ELSE <<"ScalarData", ty>>

KindOf(ty) == TypeDef(ty).kind

VariantIdents(enumTy) ==
    [i \in 1..Len(TypeDef(enumTy).variants) |-> TypeDef(enumTy).variants[i].ident]

\* EnumDiscriminant::into_usize, 1-based here.
IntoUsize(enumTy, ident) ==
    CHOOSE i \in 1..Len(TypeDef(enumTy).variants) : TypeDef(enumTy).variants[i].ident = ident

\* Numeric::MIN and Numeric::MAX.  The two f32 limits stand for f32::MIN and f32::MAX:
\* no number of the model lies outside them.  u32::MAX is cut to the largest integer
\* the model checker holds; every text and JSON number of the model is far below it.
I32Min == -2147483647 - 1
I32Max == 2147483647
U32Max == I32Max
F32Min == -1000000
F32Max == 1000000

\* <T::Metadata as Default>::default()
DefaultMetadata(ty) ==
    IF IsDiscrimTy(ty)
    THEN [default |-> VariantV(TypeDef(EnumOf(ty)).variants[1].ident), min |-> 0, max |-> 0]
    ELSE CASE ty = "i32" -> [default |-> IntV(0), min |-> I32Min, max |-> I32Max]
           [] ty = "u32" -> [default |-> IntV(0), min |-> 0, max |-> U32Max]
           [] ty = "f32" -> [default |-> FloatV(0), min |-> F32Min, max |-> F32Max]
           [] ty = "String" -> [default |-> StrV(<<>>), min |-> 0, max |-> 0]
           [] OTHER -> [default |-> NoValue, min |-> 0, max |-> 0]

\* A metadata block that ignores the #[config(..)] entries of the field.
ApplyMetadata_none(metadata, entries, i) == metadata

RECURSIVE ApplyMetadata(_, _, _)
ApplyMetadata(metadata, entries, i) ==
    IF i > Len(entries) THEN metadata
    ELSE ApplyMetadata(
            IF entries[i].path = "default" THEN [metadata EXCEPT !.default = entries[i].value]
            ELSE IF entries[i].path = "min" THEN [metadata EXCEPT !.min = entries[i].value.n]
            ELSE [metadata EXCEPT !.max = entries[i].value.n],
            entries, i + 1)

\* The fields gen_spawn_world iterates over, each with its hierarchy key, whether it
\* is the discriminant, and the variant its relevance depends on ("" if none).
SpawnField(ty, hierarchy_key, metadata, assign_discrim, dependency_variant) ==
    [ty |-> ty, hierarchy_key |-> hierarchy_key, metadata |-> metadata,
     assign_discrim |-> assign_discrim, dependency_variant |-> dependency_variant]

RECURSIVE VariantFields(_, _)
VariantFields(variants, i) ==
    IF i > Len(variants) THEN <<>>
    ELSE [k \in 1..Len(variants[i].fields) |->
            SpawnField(variants[i].fields[k].ty,
                       << <<variants[i].ident>>, <<variants[i].fields[k].ident>> >>,
                       variants[i].fields[k].metadata, FALSE, variants[i].ident)]
         \o VariantFields(variants, i + 1)

FieldIter(ty) ==
    LET def == TypeDef(ty) IN
    IF def.kind = "struct"
    THEN [k \in 1..Len(def.fields) |->
            SpawnField(def.fields[k].ty, << <<def.fields[k].ident>> >>,
                       def.fields[k].metadata, FALSE, "")]
    ELSE << SpawnField(DiscrimTy(ty), << <<"discrim">> >>, <<>>, TRUE, "") >>
         \o VariantFields(def.variants, 1)

-----------------------------------------------------------------------------
(* Spawning.                                                               *)

NoEntity == 0

SpawnContext(path, parent, dependency, dependency_variant) ==
    [path |-> path, parent |-> parent, dependency |-> dependency,
     dependency_variant |-> dependency_variant]

\* A join that appends the last segment of the key only, dropping the variant segment
\* of an enum variant field.
join_last(ctx, key, parent) ==
    [path |-> Append(ctx.path, key[Len(key)]), parent |-> parent, dependency |-> NoEntity,
     dependency_variant |-> ""]

join_orphan(ctx, key, parent) == SpawnContext(ctx.path \o key, NoEntity, NoEntity, "")

join(ctx, key, parent) == SpawnContext(ctx.path \o key, parent, NoEntity, "")

with_dependency_none(ctx, dependency, variant) == ctx

with_dependency(ctx, dependency, variant) ==
    [ctx EXCEPT !.dependency = dependency, !.dependency_variant = variant]

FirstGeneration == 1

\* One entity: the ConfigNode, ChildNodeOf, ConditionalRelevance, RootNode, ScalarData,
\* ScalarMetadata components and the bundle the manager attached.
init_config_node_marked(ctx, scalar, data, metadata, manager_comps) ==
    [path |-> ctx.path, generation |-> FirstGeneration,
     parent |-> ctx.parent,
     dependency |-> ctx.dependency, dependency_variant |-> ctx.dependency_variant,
     scalar |-> scalar, data |-> data, metadata |-> metadata,
     manager_comps |-> manager_comps, root |-> TRUE]

init_config_node(ctx, scalar, data, metadata, manager_comps) ==
    [path |-> ctx.path, generation |-> FirstGeneration,
     parent |-> ctx.parent,
     dependency |-> ctx.dependency, dependency_variant |-> ctx.dependency_variant,
     scalar |-> scalar, data |-> data, metadata |-> metadata,
     manager_comps |-> manager_comps, root |-> FALSE]

\* Serde: Supports<T>::new_entity_for_type registers T and attaches nothing.
\* Egui: attaches ScalarDraw (and TempData for Editable types).
EguiBundle(ty) ==
    IF IsDiscrimTy(ty) THEN <<"ScalarDraw">> ELSE <<"ScalarDraw", "TempData">>

\* The bundle one member of the manager tuple returns from its hook: () for Serde.
member_new_entity_for_type(m, ty) == IF m = "Egui" THEN EguiBundle(ty) ELSE <<>>

\* A tuple hook that asks the members in reverse order.
new_entity_for_type_reversed(M, i, ty) ==
    [k \in 1..Len(M) |-> member_new_entity_for_type(M[Len(M) + 1 - k], ty)]

RECURSIVE new_entity_for_type(_, _, _)
\* impl_manager!: the tuple of the members' bundles, member i first.
new_entity_for_type(M, i, ty) ==
    IF i > Len(M) THEN <<>>
    ELSE <<member_new_entity_for_type(M[i], ty)>> \o new_entity_for_type(M, i + 1, ty)

SerdeRegister(M, types, ty) ==
    IF (\E i \in 1..Len(M) : M[i] = "Json")
       /\ ~\E i \in 1..Len(types) : types[i] = ScalarDataOf(ty)
    THEN Append(types, ScalarDataOf(ty)) ELSE types

Handle(node, fields) == [node |-> node, fields |-> fields]

World(ns, types) == [nodes |-> ns, types |-> types]

\* impl_scalar_config_field::spawn_world and gen_discrim's spawn_world.
SpawnScalar(W, M, ty, ctx, metadata) ==
    [w |-> World(Append(W.nodes,
                        init_config_node(ctx, ScalarDataOf(ty), metadata.default, metadata,
                                         new_entity_for_type(M, 1, ty))),
                 SerdeRegister(M, W.types, ty)),
     h |-> Handle(Len(W.nodes) + 1, <<>>)]

RECURSIVE spawn_world(_, _, _, _, _), SpawnFieldsFrom(_, _, _, _, _, _, _, _)

\* gen_spawn_world: the node of the composite first, then one subtree per field.
spawn_world(W, M, ty, ctx, metadata) ==
    IF KindOf(ty) \in {"scalar", "discrim"}
    THEN SpawnScalar(W, M, ty, ctx, metadata)
    ELSE LET config_node == Len(W.nodes) + 1
             W1 == World(Append(W.nodes,
                                init_config_node(ctx, <<>>, NoValue,
                                                 DefaultMetadata(ty), <<>>)),
                         W.types)
         IN SpawnFieldsFrom(W1, M, FieldIter(ty), 1, ctx, config_node, NoEntity, <<>>)

SpawnFieldsFrom(W, M, flds, i, ctx, config_node, discrim_entity, handles) ==
    IF i > Len(flds) THEN [w |-> W, h |-> Handle(config_node, handles)]
    ELSE LET f == flds[i]
             joined == join(ctx, f.hierarchy_key, config_node)
             fctx == IF f.dependency_variant = "" THEN joined
                     ELSE with_dependency(joined, discrim_entity, f.dependency_variant)
             r == spawn_world(W, M, f.ty, fctx,
                              ApplyMetadata(DefaultMetadata(f.ty), f.metadata, 1))
         IN SpawnFieldsFrom(r.w, M, flds, i + 1, ctx, config_node,
                            IF f.assign_discrim THEN r.h.node ELSE discrim_entity,
                            Append(handles, r.h))

-----------------------------------------------------------------------------
(* The root registry.                                                      *)

None == <<>>
Some(v) == <<v>>

NoManager == [id |-> <<>>, root_keys |-> {}]
NoHandle == Handle(NoEntity, <<>>)

Out(op, target, ok, result) == [op |-> op, target |-> target, ok |-> ok, result |-> result]

\* A check that lets every manager type pass.
SameManager_any(mt, M) == TRUE

\* The assertion on the ManagerType resource: id == TypeId::of::<M>().
SameManager(mt, M) == mt.id = M

\* A check that finds no key in use.
key_exists_never(mt, key) == FALSE

\* HashSet::replace on root_keys returned the key: it was there already.
key_exists(mt, key) == key \in mt.root_keys

\* AppExt::init_config_with.  A panic unwinds out of the call and leaves the
\* resources as the call had changed them up to that point.
init_config_with(M, C, key) ==
    /\ inits < MaxInits
    /\ inits' = inits + 1
    /\ steps < MaxSteps
    /\ steps' = steps + 1
    /\ UNCHANGED <<last_value, last_seen>>
    /\ IF manager_type /= NoManager /\ ~SameManager(manager_type, M)
       THEN /\ out' = Out("init_config_with", C, FALSE, "multiple managers")
            /\ UNCHANGED <<nodes, manager_type, root_field, serde_types>>
       ELSE LET mt == IF manager_type = NoManager THEN [id |-> M, root_keys |-> {}]
                      ELSE manager_type
            IN IF key_exists(mt, key)
               THEN /\ out' = Out("init_config_with", C, FALSE, "key reused")
                    /\ manager_type' = mt
                    /\ UNCHANGED <<nodes, root_field, serde_types>>
               ELSE IF root_field[C] /= NoHandle
               THEN /\ out' = Out("init_config_with", C, FALSE, "root type reused")
                    /\ manager_type' = [mt EXCEPT !.root_keys = @ \cup {key}]
                    /\ UNCHANGED <<nodes, root_field, serde_types>>
               ELSE LET r == spawn_world(World(nodes, serde_types), M, C,
                                         SpawnContext(<<key>>, NoEntity, NoEntity, ""),
                                         DefaultMetadata(C))
                    IN /\ nodes' = [r.w.nodes EXCEPT ![r.h.node].root = TRUE]
                       /\ serde_types' = r.w.types
                       /\ root_field' = [root_field EXCEPT ![C] = r.h]
                       /\ manager_type' = [mt EXCEPT !.root_keys = @ \cup {key}]
                       /\ out' = Out("init_config_with", C, TRUE, "")

InitConfigWith == \E M \in ManagerTypes, C \in RootTypes, key \in RootKeys :
                    init_config_with(M, C, key)


-----------------------------------------------------------------------------
(* Reading: ConfigField::read_world and ConfigField::changed.              *)

Ok(v) == [ok |-> TRUE, v |-> v]
Panic == [ok |-> FALSE, v |-> <<>>]

RECURSIVE AllOk(_, _)
AllOk(rs, i) == i > Len(rs) \/ (rs[i].ok /\ AllOk(rs, i + 1))

Values(rs) == [i \in 1..Len(rs) |-> rs[i].v]

\* The handles of the fields of variant `ident` within the spawn handle of an enum:
\* field 1 is the discriminant, the variants' fields follow in declaration order.
RECURSIVE FieldsBefore(_, _)
FieldsBefore(variants, i) ==
    IF i = 0 THEN 0 ELSE Len(variants[i].fields) + FieldsBefore(variants, i - 1)

VariantHandles_reversed(enumTy, h, ident) ==
    LET vs == TypeDef(enumTy).variants
        i == IntoUsize(enumTy, ident)
    IN [k \in 1..Len(vs[i].fields) |->
            h.fields[1 + FieldsBefore(vs, i - 1) + (Len(vs[i].fields) + 1 - k)]]

VariantHandles(enumTy, h, ident) ==
    LET vs == TypeDef(enumTy).variants
        i == IntoUsize(enumTy, ident)
    IN [k \in 1..Len(vs[i].fields) |-> h.fields[1 + FieldsBefore(vs, i - 1) + k]]

VariantFieldTys(enumTy, ident) ==
    LET v == TypeDef(enumTy).variants[IntoUsize(enumTy, ident)]
    IN [k \in 1..Len(v.fields) |-> v.fields[k].ty]

\* The read query asks for Option<&ScalarData<T>> only, so it matches every entity;
\* the component itself must be there.
RECURSIVE read_world(_, _, _)
read_world(ns, ty, h) ==
    LET def == TypeDef(ty) IN
    IF def.kind \in {"scalar", "discrim"}
    THEN IF ns[h.node].scalar = ScalarDataOf(ty) THEN Ok(ns[h.node].data) ELSE Panic
    ELSE IF def.kind = "struct"
    THEN LET rs == [k \in 1..Len(def.fields) |-> read_world(ns, def.fields[k].ty, h.fields[k])]
         IN IF AllOk(rs, 1) THEN Ok(Values(rs)) ELSE Panic
    ELSE LET d == read_world(ns, DiscrimTy(ty), h.fields[1]) IN
         IF ~d.ok THEN Panic
         ELSE LET ident == d.v.s[1]
                  tys == VariantFieldTys(ty, ident)
                  hs == VariantHandles(ty, h, ident)
                  rs == [k \in 1..Len(tys) |-> read_world(ns, tys[k], hs[k])]
              IN IF AllOk(rs, 1) THEN Ok(<<d.v, Values(rs)>>) ELSE Panic

\* ConfigField::ChangedQueryData: the components the changed query requires of every
\* entity it is asked for.  () for scalars; an enum adds &ScalarData<{Enum}Discrim>.
RECURSIVE ChangedQueryData(_)
ChangedQueryData(ty) ==
    LET def == TypeDef(ty) IN
    IF def.kind \in {"scalar", "discrim"} THEN {}
    ELSE IF def.kind = "struct"
    THEN UNION {ChangedQueryData(def.fields[k].ty) : k \in 1..Len(def.fields)}
    ELSE {<<"ScalarData", DiscrimTy(ty)>>}
         \cup UNION {UNION {ChangedQueryData(def.variants[i].fields[k].ty) :
                                k \in 1..Len(def.variants[i].fields)} :
                        i \in 1..Len(def.variants)}

\* Query::get on Query<(&ConfigNode, C::ChangedQueryData)>: the entity matches when it
\* holds every required component.
QueryGet(ns, required, entity) == \A c \in required : ns[entity].scalar = c

RECURSIVE changed(_, _, _, _)
changed(ns, required, ty, h) ==
    LET def == TypeDef(ty) IN
    IF def.kind \in {"scalar", "discrim"}
    THEN IF QueryGet(ns, required, h.node) THEN Ok(ns[h.node].generation) ELSE Panic
    ELSE IF def.kind = "struct"
    THEN LET rs == [k \in 1..Len(def.fields) |->
                        changed(ns, required, def.fields[k].ty, h.fields[k])]
         IN IF AllOk(rs, 1) THEN Ok(Values(rs)) ELSE Panic
    ELSE IF ~QueryGet(ns, required, h.fields[1].node) THEN Panic
         ELSE LET ident == ns[h.fields[1].node].data.s[1]
                  tys == VariantFieldTys(ty, ident)
                  hs == VariantHandles(ty, h, ident)
                  rs == [k \in 1..Len(tys) |-> changed(ns, required, tys[k], hs[k])]
              IN IF AllOk(rs, 1) THEN Ok(<<IntoUsize(ty, ident), Values(rs)>>) ELSE Panic

Registered(C) == root_field[C] /= NoHandle

\* ReadConfig::read and ReadConfig::changed of the root C, in the world `ns`.
ReadOf(ns, C) == read_world(ns, C, root_field[C])
ChangedOf(ns, C) == changed(ns, ChangedQueryData(C), C, root_field[C])

Step == steps < MaxSteps /\ steps' = steps + 1 /\ UNCHANGED inits

ReadConfig_read(C) ==
    /\ Step
    /\ Registered(C)
    /\ out' = Out("read", C, ReadOf(nodes, C).ok, ReadOf(nodes, C).v)
    /\ UNCHANGED <<nodes, manager_type, root_field, serde_types, last_value, last_seen>>

ReadConfig_changed(C) ==
    /\ Step
    /\ Registered(C)
    /\ out' = Out("changed", C, ChangedOf(nodes, C).ok, ChangedOf(nodes, C).v)
    /\ UNCHANGED <<nodes, manager_type, root_field, serde_types, last_value, last_seen>>

\* ReadConfigChange::consume_change; a panic in changed() leaves the Local as it was.
consume_change(C) ==
    /\ Step
    /\ Registered(C)
    /\ LET c == ChangedOf(nodes, C) IN
       IF ~c.ok
       THEN /\ out' = Out("consume_change", C, FALSE, FALSE)
            /\ UNCHANGED <<last_value, last_seen>>
       ELSE /\ last_seen' = [last_seen EXCEPT ![C] = Some(ReadOf(nodes, C))]
            /\ IF last_value[C] = None
               THEN /\ last_value' = [last_value EXCEPT ![C] = Some(c.v)]
                    /\ out' = Out("consume_change", C, TRUE, TRUE)
               ELSE IF last_value[C][1] /= c.v
               THEN /\ last_value' = [last_value EXCEPT ![C] = Some(c.v)]
                    /\ out' = Out("consume_change", C, TRUE, TRUE)
               ELSE /\ out' = Out("consume_change", C, TRUE, FALSE)
                    /\ UNCHANGED last_value
    /\ UNCHANGED <<nodes, manager_type, root_field, serde_types>>

Read == \E C \in RootTypes : ReadConfig_read(C)
Changed == \E C \in RootTypes : ReadConfig_changed(C)
ConsumeChange == \E C \in RootTypes : consume_change(C)

-----------------------------------------------------------------------------
(* Text: joining a path with ".", splitting a key at ".", byte order.      *)

RECURSIVE path_join(_, _)
\* [String]::join("."), from segment i on.
path_join(path, i) ==
    IF i > Len(path) THEN <<>>
    ELSE IF i = Len(path) THEN path[i]
    ELSE path[i] \o <<".">> \o path_join(path, i + 1)

RECURSIVE key_split(_, _, _)
\* str::split('.'): `current` is the segment under construction.
key_split(key, i, current) ==
    IF i > Len(key) THEN <<current>>
    ELSE IF key[i] = "." THEN <<current>> \o key_split(key, i + 1, <<>>)
    ELSE key_split(key, i + 1, Append(current, key[i]))

\* The atoms of the model in the byte order of the strings they stand for.
AtomOrder == << ".", "0", "1", "2", "3", ":", "Named", "Rgb", "Rgba", "White",
                "code", "color", "discrim", "height", "nope", "red", "scale", "thickness",
                "ui", "video", "width", "win" >>

AtomRank(a) == CHOOSE i \in 1..Len(AtomOrder) : AtomOrder[i] = a

RECURSIVE TextCmp(_, _, _)
\* <String as Ord>::cmp: -1, 0 or 1.
TextCmp(a, b, i) ==
    IF i > Len(a) /\ i > Len(b) THEN 0
    ELSE IF i > Len(a) THEN -1
    ELSE IF i > Len(b) THEN 1
    ELSE IF a[i] = b[i] THEN TextCmp(a, b, i + 1)
    ELSE IF AtomRank(a[i]) < AtomRank(b[i]) THEN -1 ELSE 1

RECURSIVE PathCmp(_, _, _)
\* <Vec<String> as Ord>::cmp.
PathCmp(p, q, i) ==
    IF i > Len(p) /\ i > Len(q) THEN 0
    ELSE IF i > Len(p) THEN -1
    ELSE IF i > Len(q) THEN 1
    ELSE IF TextCmp(p[i], q[i], 1) = 0 THEN PathCmp(p, q, i + 1)
    ELSE TextCmp(p[i], q[i], 1)

-----------------------------------------------------------------------------
(* The serde manager with the serde_json adapter.                          *)

ScannedKey(path, entity) == [path |-> path, entity |-> entity]

RECURSIVE scan_keys_relevant(_, _, _)
\* A scan that leaves out the entities whose relevance link points at another variant.
scan_keys_relevant(ns, scalar, i) ==
    IF i > Len(ns) THEN <<>>
    ELSE (IF ns[i].scalar = scalar
             /\ (ns[i].dependency = NoEntity
                 \/ ns[ns[i].dependency].data = VariantV(ns[i].dependency_variant))
          THEN <<[path |-> ns[i].path, entity |-> i]>> ELSE <<>>)
         \o scan_keys_relevant(ns, scalar, i + 1)

RECURSIVE scan_keys(_, _, _)
\* Typed::scan_keys of one registered type: the entities With<ScalarData<T>>, from
\* entity i on, in the order the world holds them.
scan_keys(ns, scalar, i) ==
    IF i > Len(ns) THEN <<>>
    ELSE (IF ns[i].scalar = scalar THEN <<ScannedKey(ns[i].path, i)>> ELSE <<>>)
         \o scan_keys(ns, scalar, i + 1)

RECURSIVE keys_with_types(_, _, _)
\* Serde::keys_with_types: `order` is the order in which the HashMap hands out the
\* registered types.
keys_with_types(ns, order, i) ==
    IF i > Len(order) THEN <<>>
    ELSE scan_keys(ns, order[i], 1) \o keys_with_types(ns, order, i + 1)

\* Orders in which the HashMap can hand out the registered types: the order of
\* registration and its reverse.
TypeOrders(types) == {types, [i \in 1..Len(types) |-> types[Len(types) + 1 - i]]}

RECURSIVE sort_insert(_, _, _)
\* Position-preserving insertion of key k into the sorted sequence: slice::sort_by is stable.
sort_insert(sorted, k, i) ==
    IF i > Len(sorted) THEN Append(sorted, k)
    ELSE IF PathCmp(k.path, sorted[i].path, 1) < 0
    THEN SubSeq(sorted, 1, i - 1) \o <<k>> \o SubSeq(sorted, i, Len(sorted))
    ELSE sort_insert(sorted, k, i + 1)

sort_by_path_unsorted(keys, i, sorted) == keys

RECURSIVE sort_by_path(_, _, _)
sort_by_path(keys, i, sorted) ==
    IF i > Len(keys) THEN sorted
    ELSE sort_by_path(keys, i + 1, sort_insert(sorted, keys[i], 1))

\* SerdeScalar::as_serialize through serde_json: a non-finite float is written as null,
\* a discriminant as its variant name.
as_serialize(value) ==
    CASE value.t = "int" -> JInt(value.n)
      [] value.t = "float" -> JFloat(value.n)
      [] value.t = "nan" -> JNull
      [] value.t = "str" -> JStr(value.s)
      [] value.t = "variant" -> JStr(value.s)
      [] OTHER -> JNull

Entry(key, value) == [key |-> key, value |-> value]

\* TypedVtable::ser (JsonAdapter::for_type).
serialize_once(ns, k) == Entry(path_join(k.path, 1), as_serialize(ns[k.entity].data))

\* Serde::serialize_all: the entries of the map in the order they are written.
serialize_all(ns, order) ==
    LET keys == sort_by_path(keys_with_types(ns, order, 1), 1, <<>>)
    IN [i \in 1..Len(keys) |-> serialize_once(ns, keys[i])]

\* serde_json::from_str::<T::Deserialize> for the scalar type held in component `scalar`.
Decoded(ok, value) == [ok |-> ok, value |-> value]

from_str(scalar, j) ==
    IF Len(scalar) = 3
    THEN \* DeserializeEnumDiscriminant: visit_str and EnumDiscriminant::from_name
         IF j.j = "str" /\ Len(j.s) = 1
            /\ \E i \in 1..Len(TypeDef(EnumOf(scalar[3])).variants) :
                    TypeDef(EnumOf(scalar[3])).variants[i].ident = j.s[1]
         THEN Decoded(TRUE, VariantV(j.s[1]))
         ELSE Decoded(FALSE, NoValue)
    ELSE CASE scalar[2] = "i32" ->
                IF j.j = "int" /\ j.n >= I32Min /\ j.n <= I32Max
                THEN Decoded(TRUE, IntV(j.n)) ELSE Decoded(FALSE, NoValue)
           [] scalar[2] = "u32" ->
                IF j.j = "int" /\ j.n >= 0 /\ j.n <= U32Max
                THEN Decoded(TRUE, IntV(j.n)) ELSE Decoded(FALSE, NoValue)
           [] scalar[2] = "f32" ->
                IF j.j \in {"int", "float"}
                THEN Decoded(TRUE, FloatV(j.n)) ELSE Decoded(FALSE, NoValue)
           [] scalar[2] = "String" ->
                IF j.j = "str" THEN Decoded(TRUE, StrV(j.s)) ELSE Decoded(FALSE, NoValue)
           [] OTHER -> Decoded(FALSE, NoValue)

\* A set_deserialized that also records the loaded value as the new default.
set_deserialized_as_default(ns, entity, value) ==
    [ns EXCEPT ![entity].data = value, ![entity].metadata.default = value]

\* SerdeScalar::set_deserialized on the entity's ScalarData; nothing else is touched.
set_deserialized(ns, entity, value) == [ns EXCEPT ![entity].data = value]

\* The HashMap path -> (entity, typed) that Serde::deserialize collects; of several
\* entities with one path it keeps the one collected last.
KeyEntities(keys, path) == {i \in 1..Len(keys) : keys[i].path = path}

\* JsonAdapter::index_map_by_de_key: NoEntity when the map has no such path.
index_map_by_de_key(keys, key) ==
    LET found == KeyEntities(keys, key_split(key, 1, <<>>))
    IN IF found = {} THEN NoEntity
       ELSE keys[CHOOSE i \in found : \A k \in found : k <= i].entity

\* What a load leaves behind: the world, whether it returned Ok, the error if not, and
\* the number of entries it wrote.
Loaded(ns, ok, error, applied) ==
    [nodes |-> ns, ok |-> ok, error |-> error, applied |-> applied, calls |-> <<>>]

\* The calls that visit_map and deserialize_map_value made on the MapAccess before the
\* calls of r, in the order they were made.
Called(calls, r) == [r EXCEPT !.calls = calls \o @]

RECURSIVE visit_map(_, _, _, _, _)
\* Visitor::visit_map over serde_json's MapAccess.  After a key the reader stands before
\* the ':' of its value; next_key accepts only ',' or '}' there, so a key whose value was
\* not taken with next_value makes the following next_key fail.
\* `applied` counts the entries written.
visit_map(ns, keys, input, i, applied) ==
    IF i > Len(input) THEN Called(<<"next_key">>, Loaded(ns, TRUE, "", applied))
    ELSE LET entity == index_map_by_de_key(keys, input[i].key) IN
         IF entity = NoEntity
         THEN Called(<<"next_key", "next_key">>,
                     Loaded(ns, FALSE, "ExpectedObjectCommaOrEnd", applied))
         ELSE LET d == from_str(ns[entity].scalar, input[i].value) IN
              IF ~d.ok
              THEN Called(<<"next_key", "next_value">>, Loaded(ns, FALSE, "Custom", applied))
              ELSE Called(<<"next_key", "next_value">>,
                          visit_map(set_deserialized(ns, entity, d.value), keys, input,
                                    i + 1, applied + 1))

\* A deserialize that takes back what it wrote when the map turns out bad.
deserialize_rollback(ns, order, input) ==
    LET r == visit_map(ns, keys_with_types(ns, order, 1), input, 1, 0)
    IN IF r.ok THEN r ELSE Loaded(ns, FALSE, r.error, 0)

\* Serde::deserialize.
deserialize(ns, order, input) == visit_map(ns, keys_with_types(ns, order, 1), input, 1, 0)

-----------------------------------------------------------------------------
(* The egui manager: the editor drawn by Display::show.                    *)

HasEgui(M) == \E i \in 1..Len(M) : M[i] = "Egui"

HasComponent(node, comp) ==
    \E i \in 1..Len(node.manager_comps) :
        \E k \in 1..Len(node.manager_comps[i]) : node.manager_comps[i][k] = comp

\* ConditionalRelevance::is_entity_relevant, true for a node without the component.
is_entity_relevant(ns, id) ==
    IF ns[id].dependency = NoEntity THEN TRUE
    ELSE ns[ns[id].dependency].data = VariantV(ns[id].dependency_variant)

RECURSIVE show_node(_, _), show_children(_, _, _)

\* A show_node that looks at the relevance link of the node it is about to draw only,
\* and walks through composite nodes without looking.
show_node_through(ns, id) ==
    IF HasComponent(ns[id], "ScalarDraw")
    THEN (IF is_entity_relevant(ns, id) THEN <<id>> ELSE <<>>)
    ELSE show_children(ns, id, 1)

\* show_node: the entities whose draw_fn it calls, in call order.  It returns at an
\* irrelevant node, draws a node with ScalarDraw and otherwise descends to the children.
show_node(ns, id) ==
    IF ~is_entity_relevant(ns, id) THEN <<>>
    ELSE IF HasComponent(ns[id], "ScalarDraw") THEN <<id>>
    ELSE show_children(ns, id, 1)

\* The loop over ChildNodeList: the entities with ChildNodeOf(parent), in the order
\* they were spawned, from entity i on.
show_children(ns, parent, i) ==
    IF i > Len(ns) THEN <<>>
    ELSE (IF ns[i].parent = parent THEN show_node(ns, i) ELSE <<>>)
         \o show_children(ns, parent, i + 1)

RECURSIVE show_roots(_, _)
\* The loop over root_query, from entity i on.
show_roots(ns, i) ==
    IF i > Len(ns) THEN <<>>
    ELSE (IF ns[i].root THEN show_node(ns, i) ELSE <<>>) \o show_roots(ns, i + 1)

\* Display::show_with_style: the draw_fn calls of one traversal.
show_with_style(ns) == show_roots(ns, 1)

Drawn(ns, id) == LET drawn == show_with_style(ns) IN \E k \in 1..Len(drawn) : drawn[k] = id

Digits == <<"0", "1", "2", "3", "4", "5", "6", "7", "8", "9">>

IsDigit(a) == \E i \in 1..Len(Digits) : Digits[i] = a

DigitValue(a) == (CHOOSE i \in 1..Len(Digits) : Digits[i] = a) - 1

RECURSIVE DecimalValue(_, _, _)
DecimalValue(text, i, acc) ==
    IF i > Len(text) THEN acc ELSE DecimalValue(text, i + 1, acc * 10 + DigitValue(text[i]))

IsDecimal(text) == Len(text) > 0 /\ \A i \in 1..Len(text) : IsDigit(text[i])

\* NumericLike::parse_from_str = str::parse::<T>().ok(), on unsigned decimal texts and
\* the text "NaN".
parse_from_str(ty, text) ==
    IF IsDecimal(text)
    THEN IF ty = "f32" THEN Some(FloatV(DecimalValue(text, 1, 0)))
         ELSE IF DecimalValue(text, 1, 0) <= DefaultMetadata(ty).max
         THEN Some(IntV(DecimalValue(text, 1, 0)))
         ELSE None
    ELSE IF ty = "f32" /\ text = <<"NaN">> THEN Some(NaNV)
    ELSE None

\* The `parsed < min` / `parsed > max` clamp of the text branch; both comparisons are
\* false for NaN.
clamp(parsed, metadata) ==
    IF parsed.t = "nan" THEN parsed
    ELSE IF parsed.n < metadata.min THEN [parsed EXCEPT !.n = metadata.min]
    ELSE IF parsed.n > metadata.max THEN [parsed EXCEPT !.n = metadata.max]
    ELSE parsed

\* FieldGeneration::next
next(generation) == generation + 1

\* NumericLike::saturating_add_usize and saturating_sub_usize; the floats add and
\* subtract plainly, and NaN stays NaN.
saturating_add_usize(ty, value, i) ==
    IF value.t = "nan" THEN value
    ELSE IF ty = "f32" THEN [value EXCEPT !.n = @ + i]
    ELSE IF value.n > DefaultMetadata(ty).max - i THEN [value EXCEPT !.n = DefaultMetadata(ty).max]
    ELSE [value EXCEPT !.n = @ + i]

saturating_sub_usize(ty, value, i) ==
    IF value.t = "nan" THEN value
    ELSE IF ty = "f32" THEN [value EXCEPT !.n = @ - i]
    ELSE IF value.n < DefaultMetadata(ty).min + i THEN [value EXCEPT !.n = DefaultMetadata(ty).min]
    ELSE [value EXCEPT !.n = @ - i]

\* Texts typed into a numeric editor and into a string editor.
NumericTexts == {<<"5">>, <<"x">>, <<"NaN">>}
StringTexts == {<<"red">>, <<>>}

\* What the user does to a numeric editor during one frame: edits the text, or leaves
\* the text alone and presses ArrowUp `up` times and ArrowDown `down` times.
NumericEdit(changed_, text, up, down) ==
    [changed |-> changed_, text |-> text, up |-> up, down |-> down]

NumericEdits ==
    {NumericEdit(TRUE, text, 0, 0) : text \in NumericTexts}
    \cup {NumericEdit(FALSE, <<>>, 1, 0), NumericEdit(FALSE, <<>>, 0, 1)}

\* Editable::show for numbers without a slider.  An edited text that parses is clamped
\* and stored; otherwise the arrow keys of the focused editor step the value and mark
\* the response changed.  The draw_fn advances the generation whenever the response is
\* marked changed.
show_numeric(id, edit) ==
    LET ty == nodes[id].scalar[2]
        parsed == parse_from_str(ty, edit.text)
        up == IF edit.up >= 1 THEN saturating_add_usize(ty, nodes[id].data, edit.up)
              ELSE nodes[id].data
        down == IF edit.down >= 1 THEN saturating_sub_usize(ty, up, edit.down) ELSE up
    IN nodes' = [nodes EXCEPT ![id].generation = next(@),
                              ![id].data = IF edit.changed /\ parsed /= None
                                           THEN clamp(parsed[1], nodes[id].metadata)
                                           ELSE IF edit.changed THEN @
                                           ELSE down]

\* Editable::show for String: the TextEdit writes the edited text into the value.
show_string(id, text) ==
    /\ nodes[id].data /= StrV(text)
    /\ nodes' = [nodes EXCEPT ![id].generation = next(@), ![id].data = StrV(text)]

show_discrim_reset(id, variant, resp_changed) ==
    /\ nodes[id].data /= VariantV(variant)
    /\ nodes' = [k \in 1..Len(nodes) |->
                    IF k = id
                    THEN [nodes[k] EXCEPT !.data = VariantV(variant),
                                          !.generation = IF resp_changed THEN next(@) ELSE @]
                    ELSE IF nodes[k].dependency = id /\ nodes[k].scalar /= <<>>
                    THEN [nodes[k] EXCEPT !.data = nodes[k].metadata.default]
                    ELSE nodes[k]]

\* The discriminant's ComboBox: selectable_value assigns the clicked variant; the
\* generation advances if the response of the ComboBox itself is marked changed.
show_discrim(id, variant, resp_changed) ==
    /\ nodes[id].data /= VariantV(variant)
    /\ nodes' = [nodes EXCEPT ![id].data = VariantV(variant),
                              ![id].generation = IF resp_changed THEN next(@) ELSE @]

\* Display::show during a frame in which the user edits the widget that the draw_fn
\* of entity id has put on the screen.
Display_show(id) ==
    /\ Step
    /\ manager_type /= NoManager
    /\ HasEgui(manager_type.id)
    /\ IF Len(nodes[id].scalar) = 3
       THEN \E i \in 1..Len(TypeDef(EnumOf(nodes[id].scalar[3])).variants),
               resp_changed \in BOOLEAN :
                show_discrim(id, TypeDef(EnumOf(nodes[id].scalar[3])).variants[i].ident,
                             resp_changed)
       ELSE IF nodes[id].scalar[2] = "String"
       THEN \E text \in StringTexts : show_string(id, text)
       ELSE \E edit \in NumericEdits : show_numeric(id, edit)
    /\ out' = Out("show", id, TRUE, "")
    /\ UNCHANGED <<manager_type, root_field, serde_types, last_value, last_seen>>

Show == LET drawn == show_with_style(nodes) IN \E k \in 1..Len(drawn) : Display_show(drawn[k])

-----------------------------------------------------------------------------
(* Dumping and loading through Serde<JsonAdapter>.                         *)

\* tests/dump_load_json.rs: the JSON object that test_load reads.
TestPayload ==
    << Entry(<<"ui", ".", "thickness">>, JInt(5)),
       Entry(<<"ui", ".", "color", ".", "discrim">>, JStr(<<"Named">>)),
       Entry(<<"ui", ".", "color", ".", "Named", ":", "code">>, JStr(<<"red">>)) >>

\* The entries generated load inputs are made of.
EntryPool ==
    { Entry(<<"ui", ".", "thickness">>, JInt(5)),
      Entry(<<"ui", ".", "thickness">>, JStr(<<"red">>)),
      Entry(<<"ui", ".", "color", ".", "discrim">>, JStr(<<"Named">>)),
      Entry(<<"ui", ".", "nope">>, JInt(1)),
      Entry(<<"win", ".", "video", ".", "width">>, JInt(7)) }

\* The objects a load is tried with: generated ones, the test's, and the dump that
\* the previous operation produced.
LoadInputs ==
    UNION {[1..n -> EntryPool] : n \in 0..MaxEntries}
    \cup {TestPayload}
    \cup (IF out.op = "to_string" THEN {out.result} ELSE {})

\* A to_string that fetches every node it writes mutably and marks it changed.
to_string_marking(order) ==
    /\ Step
    /\ manager_type /= NoManager
    /\ out' = Out("to_string", "", TRUE, serialize_all(nodes, order))
    /\ nodes' = [id \in 1..Len(nodes) |->
                    IF nodes[id].scalar = <<>> THEN nodes[id]
                    ELSE [nodes[id] EXCEPT !.generation = next(@)]]
    /\ UNCHANGED <<manager_type, root_field, serde_types, last_value, last_seen>>

\* Serde::<JsonAdapter>::to_string
to_string(order) ==
    /\ Step
    /\ manager_type /= NoManager
    /\ out' = Out("to_string", "", TRUE, serialize_all(nodes, order))
    /\ UNCHANGED <<nodes, manager_type, root_field, serde_types, last_value, last_seen>>

\* Serde::<JsonAdapter>::from_reader on the object `input`.
from_reader(order, input) ==
    /\ Step
    /\ manager_type /= NoManager
    /\ LET r == deserialize(nodes, order, input) IN
         /\ nodes' = r.nodes
         /\ out' = Out("from_reader", r.error, r.ok, r.applied)
    /\ UNCHANGED <<manager_type, root_field, serde_types, last_value, last_seen>>

Dump == \E order \in TypeOrders(serde_types) : to_string(order)

Load == \E order \in TypeOrders(serde_types), input \in LoadInputs : from_reader(order, input)

-----------------------------------------------------------------------------

Init ==
    /\ nodes = <<>>
    /\ manager_type = NoManager
    /\ root_field = [C \in RootTypes |-> NoHandle]
    /\ serde_types = <<>>
    /\ last_value = [C \in RootTypes |-> None]
    /\ last_seen = [C \in RootTypes |-> None]
    /\ out = Out("new", "", TRUE, "")
    /\ steps = 0
    /\ inits = 0

Next == InitConfigWith \/ Read \/ Changed \/ ConsumeChange \/ Show \/ Dump \/ Load

Spec == Init /\ [][Next]_vars

-----------------------------------------------------------------------------
(* The fields of a root and their changed witnesses.                       *)

RECURSIVE Fields(_, _)
\* The field of type ty with spawn handle h and every field below it, as <<type, handle>>.
Fields(ty, h) ==
    {<<ty, h>>}
    \cup (IF KindOf(ty) \in {"scalar", "discrim"} THEN {}
          ELSE UNION {Fields(FieldIter(ty)[k].ty, h.fields[k]) : k \in 1..Len(h.fields)})

RECURSIVE EntitiesOf(_)
\* The entities of the subtree a spawn handle stands for.
EntitiesOf(h) == {h.node} \cup UNION {EntitiesOf(h.fields[k]) : k \in 1..Len(h.fields)}

\* The fields of root C that are entity id or have it below them.
FieldsAbove(C, id) == {f \in Fields(C, root_field[C]) : id \in EntitiesOf(f[2])}

\* ConfigField::changed of field f of root C, through the changed query of ReadConfig<C>.
WitnessAt(ns, C, f) == changed(ns, ChangedQueryData(C), f[1], f[2])

Differ(a, b) == a.ok /\ b.ok /\ a.v /= b.v

SameWorld == Len(nodes') = Len(nodes)

-----------------------------------------------------------------------------
(* Claims.                                                                 *)

\* C1: after a scalar mutation that increments its node's generation, the changed
\* witness of that node and of every composite above it, up to the root, differs from
\* the witness before the mutation.
C1_Propagation ==
    [][\A C \in RootTypes : \A id \in 1..Len(nodes) :
          (SameWorld /\ Registered(C) /\ nodes'[id].generation > nodes[id].generation)
          => \A f \in FieldsAbove(C, id) :
                Differ(WitnessAt(nodes, C, f), WitnessAt(nodes', C, f))]_vars

\* C2: when a step changes config data under a root, by an edit or by a load, the
\* witnesses that changed returns before and after the step are unequal.
C2_ChangeIsWitnessed ==
    [][\A C \in RootTypes :
          (SameWorld /\ Registered(C)
           /\ \E id \in EntitiesOf(root_field[C]) : nodes'[id].data /= nodes[id].data)
          => (ChangedOf(nodes, C).ok /\ ChangedOf(nodes', C).ok
              => ChangedOf(nodes, C).v /= ChangedOf(nodes', C).v)]_vars

\* C3: when the discriminant of an enum field changes to another variant, the changed
\* witness of the enum and of every composite above it differs from the witness before,
\* whether or not a generation was incremented.
C3_VariantSwitch ==
    [][\A C \in RootTypes :
          (SameWorld /\ Registered(C))
          => \A e \in {f \in Fields(C, root_field[C]) : KindOf(f[1]) = "enum"} :
                nodes'[e[2].fields[1].node].data /= nodes[e[2].fields[1].node].data
                => \A f \in FieldsAbove(C, e[2].node) :
                      Differ(WitnessAt(nodes, C, f), WitnessAt(nodes', C, f))]_vars

\* C4: a changed call that directly follows a changed call on the same root returns what
\* the first returned, and read, changed and to_string (serialize_all) leave every
\* node's value and generation, hence every witness, as they were.
C4_Stable ==
    [][/\ (out.op = "changed" /\ out'.op = "changed" /\ out'.target = out.target)
          => (out'.ok = out.ok /\ out'.result = out.result)
       /\ out'.op \in {"read", "changed", "to_string"}
          => /\ SameWorld
             /\ \A id \in 1..Len(nodes) :
                    /\ nodes'[id].data = nodes[id].data
                    /\ nodes'[id].generation = nodes[id].generation
             /\ \A C \in RootTypes :
                    Registered(C) => ChangedOf(nodes', C) = ChangedOf(nodes, C)]_vars

\* C4 witness: a consumer recorded a witness of a root and a later changed call on that
\* root returned the same witness.
C4_Witness ==
    /\ out.op = "changed"
    /\ out.ok
    /\ last_value[out.target] = Some(out.result)

\* C5: consume_change returns true on a consumer's first call, and on a later call it
\* returns true exactly when the field reads differently than at the consumer's
\* previous call.
C5_ConsumeChange ==
    [][\A C \in RootTypes :
          (out'.op = "consume_change" /\ out'.target = C /\ steps' = steps + 1)
          => /\ out'.ok
             /\ out'.result = (IF last_seen[C] = None THEN TRUE
                               ELSE last_seen[C][1] /= ReadOf(nodes, C))]_vars

\* tests/dump_load_json.rs: the JSON text that dump_json expects, entry by entry.
DumpJson ==
    << Entry(<<"ui", ".", "color", ".", "Named", ":", "code">>, JStr(<<>>)),
       Entry(<<"ui", ".", "color", ".", "Rgb", ":", "0">>, JFloat(0)),
       Entry(<<"ui", ".", "color", ".", "Rgb", ":", "1">>, JFloat(0)),
       Entry(<<"ui", ".", "color", ".", "Rgb", ":", "2">>, JFloat(0)),
       Entry(<<"ui", ".", "color", ".", "Rgba", ":", "0", ".", "0">>, JFloat(0)),
       Entry(<<"ui", ".", "color", ".", "Rgba", ":", "0", ".", "1">>, JFloat(0)),
       Entry(<<"ui", ".", "color", ".", "Rgba", ":", "0", ".", "2">>, JFloat(0)),
       Entry(<<"ui", ".", "color", ".", "Rgba", ":", "0", ".", "3">>, JFloat(0)),
       Entry(<<"ui", ".", "color", ".", "discrim">>, JStr(<<"White">>)),
       Entry(<<"ui", ".", "thickness">>, JInt(3)) >>

\* Settings is the only root, registered under "ui", and nothing else was done before
\* the operation counted as number `n`.
FreshSettings(n) ==
    /\ inits = 1
    /\ steps = n
    /\ Registered("Settings")
    /\ manager_type.root_keys = {<<"ui">>}

\* C6: the dump of the freshly spawned Settings schema rooted at "ui" is exactly the ten
\* entries of the test, an enum variant field under the key "{path}.{Variant}:{field}".
C6_DumpLiteral == (FreshSettings(2) /\ out.op = "to_string") => out.result = DumpJson

\* C7: loading the test's object into the freshly spawned Settings schema succeeds and
\* makes read return thickness 5 and color Named{code: "red"}.
C7_LoadLiteral ==
    FreshSettings(1)
    => \A order \in TypeOrders(serde_types) :
          LET r == deserialize(nodes, order, TestPayload) IN
          /\ r.ok
          /\ read_world(r.nodes, "Settings", root_field["Settings"])
                = Ok(<<IntV(5), <<VariantV("Named"), <<StrV(<<"red">>)>>>>>>)

\* For each entry of a load input the entity it is written to, NoEntity for an unknown
\* key; `keys` is what keys_with_types collected.
EntryEntities(keys, input) ==
    [k \in 1..Len(input) |-> index_map_by_de_key(keys, input[k].key)]

\* For each entry the decoding of its value for that entity.
EntryDecoded(ent, input) ==
    [k \in 1..Len(input) |->
        IF ent[k] = NoEntity THEN Decoded(FALSE, NoValue)
        ELSE from_str(nodes[ent[k]].scalar, input[k].value)]

\* Entry k is the last one up to entry hi that is written to its entity.
LastFor(ent, k, hi) == \A j \in (k + 1)..hi : ent[j] /= ent[k]

\* C8: a load whose input contains keys that match no node succeeds, applies every
\* recognized key and leaves every other node as it was.
C8_UnknownKeysIgnored ==
    manager_type /= NoManager
    => \A order \in TypeOrders(serde_types) :
       LET keys == keys_with_types(nodes, order, 1) IN
       \A input \in LoadInputs :
          LET ent == EntryEntities(keys, input)
              dec == EntryDecoded(ent, input)
              r == deserialize(nodes, order, input)
          IN ((\E k \in 1..Len(input) : ent[k] = NoEntity)
              /\ (\A k \in 1..Len(input) : ent[k] /= NoEntity => dec[k].ok))
             => /\ r.ok
                /\ \A k \in 1..Len(input) :
                       (ent[k] /= NoEntity /\ LastFor(ent, k, Len(input)))
                       => r.nodes[ent[k]].data = dec[k].value
                /\ \A id \in 1..Len(nodes) :
                       (\A k \in 1..Len(input) : ent[k] /= id) => r.nodes[id] = nodes[id]

\* C9: loading the dump that was just taken succeeds and leaves every scalar value as
\* it was.
C9_RoundTrip ==
    out.op = "to_string"
    => \A order \in TypeOrders(serde_types) :
          LET r == deserialize(nodes, order, out.result) IN
          /\ r.ok
          /\ \A id \in 1..Len(nodes) : r.nodes[id].data = nodes[id].data

\* C10: when the value of a recognized key fails to decode (every entry before it had a
\* recognized key and a decodable value), the load returns an error, the entries before
\* the failing one stay applied, and the node of the failing key and of every later key
\* keeps the value it had, unless an entry before the failing one wrote it.
C10_DecodeFailureStops ==
    manager_type /= NoManager
    => \A order \in TypeOrders(serde_types) :
       LET keys == keys_with_types(nodes, order, 1) IN
       \A input \in LoadInputs :
          LET ent == EntryEntities(keys, input)
              dec == EntryDecoded(ent, input)
          IN \A i \in 1..Len(input) :
                ((\A k \in 1..i : ent[k] /= NoEntity)
                 /\ (\A k \in 1..(i - 1) : dec[k].ok)
                 /\ ~dec[i].ok)
                => LET r == deserialize(nodes, order, input) IN
                   /\ ~r.ok
                   /\ \A k \in 1..(i - 1) :
                          LastFor(ent, k, i - 1) => r.nodes[ent[k]].data = dec[k].value
                   /\ \A k \in i..Len(input) :
                          (ent[k] /= NoEntity /\ \A j \in 1..(i - 1) : ent[j] /= ent[k])
                          => r.nodes[ent[k]].data = nodes[ent[k]].data

\* C10 witness: a load wrote at least one entry and then failed on a value that did not
\* decode.
C10_Witness ==
    /\ out.op = "from_reader"
    /\ ~out.ok
    /\ out.target = "Custom"
    /\ out.result >= 1

\* C11: a load (deserialize: visit_map over the keys collected from the world), whether
\* it succeeds or fails, creates and removes no node, changes
\* nothing of a node but its value (path, generation, parent link, relevance link,
\* metadata and manager records stay), and leaves the value of every node whose key
\* is not in the input as it was.
C11_LoadFrame ==
    manager_type /= NoManager
    => LET key_of == [id \in 1..Len(nodes) |-> path_join(nodes[id].path, 1)] IN
       \A order \in TypeOrders(serde_types) :
       LET keys == keys_with_types(nodes, order, 1) IN
       \A input \in LoadInputs :
          LET r == visit_map(nodes, keys, input, 1, 0).nodes IN
          /\ Len(r) = Len(nodes)
          /\ \A id \in 1..Len(nodes) :
                 IF \E k \in 1..Len(input) : input[k].key = key_of[id]
                 THEN [r[id] EXCEPT !.data = nodes[id].data] = nodes[id]
                 ELSE r[id] = nodes[id]

\* C11 witness: a load wrote the discriminant of Settings, which now differs from its
\* default, while the stored fields of the variants still hold their defaults.
C11_Witness ==
    /\ out.op = "from_reader"
    /\ out.result >= 1
    /\ Registered("Settings")
    /\ \E id \in EntitiesOf(root_field["Settings"]) :
           /\ Len(nodes[id].scalar) = 3
           /\ nodes[id].data /= nodes[id].metadata.default
           /\ nodes[id].generation = FirstGeneration
    /\ \A id \in EntitiesOf(root_field["Settings"]) :
           nodes[id].dependency /= NoEntity => nodes[id].data = nodes[id].metadata.default

\* The scalar nodes of the world: the entities that hold a ScalarData component.
ScalarNodes(ns) == {id \in 1..Len(ns) : ns[id].scalar /= <<>>}

\* C12: the dump has exactly one entry for every scalar node of every registered
\* root and no other entry, whatever the active variants are: the entry carries the
\* node's joined path and its value, also for discriminants and for the fields of
\* inactive variants.
C12_DumpComplete ==
    manager_type /= NoManager
    => \A order \in TypeOrders(serde_types) :
          LET dump == serialize_all(nodes, order) IN
          /\ Len(dump) = Cardinality(ScalarNodes(nodes))
          /\ \A id \in ScalarNodes(nodes) :
                 /\ \E C \in RootTypes : Registered(C) /\ id \in EntitiesOf(root_field[C])
                 /\ Cardinality({k \in 1..Len(dump) :
                                    dump[k].key = path_join(nodes[id].path, 1)}) = 1
                 /\ \E k \in 1..Len(dump) :
                        dump[k] = Entry(path_join(nodes[id].path, 1),
                                        as_serialize(nodes[id].data))

\* C12 witness: a dump was taken after two roots were registered one after another,
\* while a variant of Color was inactive, and it has an entry for every scalar node.
C12_Witness ==
    /\ out.op = "to_string"
    /\ \A C \in RootTypes : Registered(C)
    /\ \E id \in 1..Len(nodes) : ~is_entity_relevant(nodes, id)
    /\ Len(out.result) = Cardinality(ScalarNodes(nodes))
    /\ Len(out.result) > 10

RECURSIVE UnderInactive(_, _)
\* The node or one of the nodes above it carries a relevance link whose predicate is
\* false: the node lies under an inactive enum variant.
UnderInactive(ns, id) ==
    IF ~is_entity_relevant(ns, id) THEN TRUE
    ELSE IF ns[id].parent = NoEntity THEN FALSE
    ELSE UnderInactive(ns, ns[id].parent)

C14_ManagerFixed ==
    [][\A M \in ManagerTypes, C \in RootTypes, key \in RootKeys :
          (init_config_with(M, C, key) /\ manager_type /= NoManager)
          => /\ manager_type'.id = manager_type.id
             /\ SubSeq(serde_types', 1, Len(serde_types)) = serde_types
             /\ manager_type.id /= M
                => /\ ~out'.ok
                   /\ nodes' = nodes
                   /\ root_field' = root_field
                   /\ serde_types' = serde_types]_vars

\* C14 witness: after a root was registered, a call with another manager type panicked.
C14_Witness ==
    /\ out.op = "init_config_with"
    /\ ~out.ok
    /\ out.result = "multiple managers"
    /\ \E C \in RootTypes : Registered(C)

\* The root nodes of the world.
RootNodes(ns) == {id \in 1..Len(ns) : ns[id].root}

\* C15: an init_config_with call panics and spawns nothing when its key is the key of
\* a tree spawned by an earlier call or when its root type was registered by an
\* earlier call; after every step each registered root type has one tree of its own
\* and no two trees have the same key.
C15_KeyAndTypeUnique ==
    [][/\ \A M \in ManagerTypes, C \in RootTypes, key \in RootKeys :
             (/\ init_config_with(M, C, key)
              /\ \/ \E id \in RootNodes(nodes) : nodes[id].path = <<key>>
                 \/ Registered(C))
             => /\ ~out'.ok
                /\ nodes' = nodes
                /\ root_field' = root_field
       /\ \A i, j \in RootNodes(nodes') : nodes'[i].path = nodes'[j].path => i = j
       /\ \A i \in RootNodes(nodes') :
             Cardinality({C \in RootTypes : root_field'[C].node = i}) = 1
       /\ \A C \in RootTypes : root_field'[C] /= NoHandle => root_field'[C].node \in RootNodes(nodes')
      ]_vars

\* C15 witness: a second call reused the key of the first tree, or its root type, and
\* panicked, leaving one tree.
C15_Witness ==
    /\ out.op = "init_config_with"
    /\ ~out.ok
    /\ out.result \in {"key reused", "root type reused"}
    /\ Cardinality(RootNodes(nodes)) = 1

\* C16: no two nodes of the world have the same path, whatever roots were registered
\* under whatever keys.
C16_PathsUnique ==
    \A i, j \in 1..Len(nodes) : nodes[i].path = nodes[j].path => i = j

\* C16 witness: both roots are registered, and two variants of Color have a field of
\* the same name whose paths differ in the variant segment only.
C16_Witness ==
    /\ \A C \in RootTypes : Registered(C)
    /\ \E i, j \in 1..Len(nodes) :
           /\ i /= j
           /\ nodes[i].parent = nodes[j].parent
           /\ nodes[i].path[Len(nodes[i].path)] = nodes[j].path[Len(nodes[j].path)]

\* What read returns for a root type whose fields all hold their defaults.
DefaultRead(C) ==
    IF C = "Settings" THEN Ok(<<IntV(3), <<VariantV("White"), <<>>>>>>)
    ELSE Ok(<<FloatV(0), <<IntV(0), IntV(0)>>>>)

\* C17: right after a root is registered, read returns the defaults (thickness 3 and
\* color White for Settings), every scalar node of the new tree holds the default of
\* its metadata, and every discriminant holds the first variant of its enum.
C17_DefaultsAfterSpawn ==
    \A C \in RootTypes :
       (out.op = "init_config_with" /\ out.ok /\ out.target = C)
       => /\ ReadOf(nodes, C) = DefaultRead(C)
          /\ \A id \in EntitiesOf(root_field[C]) \cap ScalarNodes(nodes) :
                 /\ nodes[id].data = nodes[id].metadata.default
                 /\ Len(nodes[id].scalar) = 3
                    => nodes[id].data = VariantV(VariantIdents(EnumOf(nodes[id].scalar[3]))[1])

\* C17 witness: Settings was just registered and read gives thickness 3, a default
\* that its #[config(default = 3)] overrides, and color White.
C17_Witness ==
    /\ out.op = "init_config_with"
    /\ out.ok
    /\ out.target = "Settings"
    /\ ReadOf(nodes, "Settings") = Ok(<<IntV(3), <<VariantV("White"), <<>>>>>>)

\* The records that one invocation of the hook of manager m leaves on a node holding
\* the component `scalar`: nothing for Json, ScalarDraw (with TempData for an Editable
\* type) for Egui.
HookRecords(m, scalar) ==
    IF m /= "Egui" THEN <<>>
    ELSE IF Len(scalar) = 3 THEN <<"ScalarDraw">>
    ELSE <<"ScalarDraw", "TempData">>

\* C18: every scalar node carries, member by member in the order of the manager tuple,
\* the records of exactly one hook invocation per member, and its type is registered
\* once with the Json member; a composite node carries no manager record and no
\* composite type is registered.
C18_HooksPerScalar ==
    manager_type /= NoManager
    => /\ \A id \in ScalarNodes(nodes) :
              /\ nodes[id].manager_comps
                    = [i \in 1..Len(manager_type.id) |->
                         HookRecords(manager_type.id[i], nodes[id].scalar)]
              /\ Cardinality({k \in 1..Len(serde_types) :
                                 serde_types[k] = nodes[id].scalar}) = 1
       /\ \A id \in (1..Len(nodes)) \ ScalarNodes(nodes) : nodes[id].manager_comps = <<>>
       /\ \A k \in 1..Len(serde_types) :
              \E id \in ScalarNodes(nodes) : nodes[id].scalar = serde_types[k]

\* C18 witness: Settings was spawned under the tuple (Json, Egui): its discriminant
\* carries the unit of Json followed by the ScalarDraw of Egui, and its struct and
\* enum nodes carry nothing.
C18_Witness ==
    /\ manager_type /= NoManager
    /\ manager_type.id = <<"Json", "Egui">>
    /\ Registered("Settings")
    /\ \E id \in ScalarNodes(nodes) : nodes[id].manager_comps = << <<>>, <<"ScalarDraw">> >>
    /\ \E id \in 1..Len(nodes) : nodes[id].scalar = <<>> /\ nodes[id].manager_comps = <<>>

\* C19: a node is spawned with generation 1, no step decreases a generation, and an
\* edit in the editor makes the generation of the edited node strictly greater and
\* leaves every other generation as it was.
C19_GenerationMonotonic ==
    [][/\ \A id \in 1..Len(nodes') :
             IF id > Len(nodes) THEN nodes'[id].generation = 1
             ELSE nodes'[id].generation >= nodes[id].generation
       /\ (out'.op = "show" /\ steps' = steps + 1)
          => \A id \in 1..Len(nodes) :
                IF id = out'.target THEN nodes'[id].generation > nodes[id].generation
                ELSE nodes'[id].generation = nodes[id].generation]_vars

\* C20: the value of every numeric scalar node lies between the min and the max of its
\* metadata, after any sequence of edits and loads.
C20_WithinMinMax ==
    \A id \in ScalarNodes(nodes) :
       nodes[id].data.t \in {"int", "float"}
       => /\ nodes[id].data.n >= nodes[id].metadata.min
          /\ nodes[id].data.n <= nodes[id].metadata.max

-----------------------------------------------------------------------------

\* The enum fields of every registered root, as <<type, handle>>.
EnumFields ==
    UNION {{f \in Fields(C, root_field[C]) : KindOf(f[1]) = "enum"} :
              C \in {D \in RootTypes : Registered(D)}}

\* The same, in the state a step leads to.
EnumFieldsAfter ==
    UNION {{f \in Fields(C, root_field'[C]) : KindOf(f[1]) = "enum"} :
              C \in {D \in RootTypes : root_field'[D] /= NoHandle}}

RECURSIVE SubtreeSize(_)
\* The number of nodes the schema of type ty asks for, all variants counted.
SubtreeSize(ty) ==
    LET flds == FieldIter(ty)
        sizes == [k \in 1..Len(flds) |-> SubtreeSize(flds[k].ty)]
        Sum[k \in 0..Len(flds)] == IF k = 0 THEN 0 ELSE sizes[k] + Sum[k - 1]
    IN IF KindOf(ty) \in {"scalar", "discrim"} THEN 1 ELSE 1 + Sum[Len(flds)]

\* C21: a spawned enum field has one node for the enum, one discriminant node and the
\* field subtrees of every variant; a step that switches the active variant creates and
\* removes no node and leaves every other node of the enum as it was, so that putting
\* the earlier discriminant back gives the earlier read result.
C21_AllVariantsSpawned ==
    [][(\A e \in EnumFieldsAfter :
            /\ Len(e[2].fields) = 1 + FieldsBefore(TypeDef(e[1]).variants,
                                                   Len(TypeDef(e[1]).variants))
            /\ nodes'[e[2].fields[1].node].scalar = ScalarDataOf(DiscrimTy(e[1]))
            /\ EntitiesOf(e[2]) \subseteq 1..Len(nodes')
            /\ Cardinality(EntitiesOf(e[2])) = SubtreeSize(e[1]))
       /\ (\A f \in EnumFields :
            LET d == f[2].fields[1].node IN
            nodes'[d].data /= nodes[d].data
            => /\ SameWorld
               /\ \A id \in EntitiesOf(f[2]) \ {d} : nodes'[id] = nodes[id]
               /\ read_world([nodes' EXCEPT ![d].data = nodes[d].data], f[1], f[2])
                    = read_world(nodes, f[1], f[2]))]_vars

\* A variant with a field was active with an edited field, and the step switched away.
C21_Witness ==
    \E e \in EnumFields :
        /\ out.op = "show" /\ out.target = e[2].fields[1].node
        /\ nodes[e[2].fields[1].node].data = VariantV("White")
        /\ \E id \in EntitiesOf(e[2]) :
              /\ nodes[id].scalar /= <<>>
              /\ nodes[id].dependency = e[2].fields[1].node
              /\ nodes[id].data /= nodes[id].metadata.default

-----------------------------------------------------------------------------

\* The entities spawned for the fields of the variants of enum field e, each with its
\* variant: <<entity, variant>>.
VariantFieldNodes(e) ==
    UNION {{<<VariantHandles(e[1], e[2], ident)[k].node, ident>> :
                k \in 1..Len(VariantFieldTys(e[1], ident))} :
              ident \in {VariantIdents(e[1])[i] : i \in 1..Len(VariantIdents(e[1]))}}

\* C22: every node spawned for a field of an enum variant has a relevance link to the
\* discriminant node of that enum, an earlier entity, and is relevant exactly when the
\* discriminant holds that variant; the fields of at most one variant of an enum are
\* relevant; no other node has a relevance link.
C22_RelevanceLinks ==
    /\ \A e \in EnumFields :
         LET d == e[2].fields[1].node IN
         /\ \A vf \in VariantFieldNodes(e) :
              /\ nodes[vf[1]].dependency = d
              /\ d \in 1..(vf[1] - 1)
              /\ nodes[d].scalar = ScalarDataOf(DiscrimTy(e[1]))
              /\ nodes[vf[1]].dependency_variant = vf[2]
              /\ is_entity_relevant(nodes, vf[1]) <=> nodes[d].data = VariantV(vf[2])
         /\ Cardinality({vf[2] : vf \in {x \in VariantFieldNodes(e) :
                                             is_entity_relevant(nodes, x[1])}}) <= 1
    /\ \A id \in 1..Len(nodes) :
         nodes[id].dependency /= NoEntity
         => \E e \in EnumFields : \E vf \in VariantFieldNodes(e) : vf[1] = id

\* An enum is spawned and a variant with fields is active after a switch.
C22_Witness ==
    \E e \in EnumFields :
        /\ nodes[e[2].fields[1].node].data = VariantV("Rgba")
        /\ \E vf \in VariantFieldNodes(e) : is_entity_relevant(nodes, vf[1])
        /\ \E vf \in VariantFieldNodes(e) : ~is_entity_relevant(nodes, vf[1])

-----------------------------------------------------------------------------

\* The entity whose ConfigNode has the given path.
NodeAt(path) == CHOOSE id \in 1..Len(nodes) : nodes[id].path = path

RECURSIVE ReadAt(_, _)
\* The value of the field of type ty spawned at path, taken from the nodes by their
\* paths: of an enum, the discriminant and the fields of the variant it holds.
ReadAt(ty, path) ==
    LET def == TypeDef(ty) IN
    IF def.kind \in {"scalar", "discrim"} THEN nodes[NodeAt(path)].data
    ELSE IF def.kind = "struct"
    THEN [k \in 1..Len(def.fields) |->
            ReadAt(def.fields[k].ty, path \o << <<def.fields[k].ident>> >>)]
    ELSE LET d == nodes[NodeAt(path \o << <<"discrim">> >>)].data
             v == def.variants[IntoUsize(ty, d.s[1])]
         IN << d, [k \in 1..Len(v.fields) |->
                     ReadAt(v.fields[k].ty, path \o << <<v.ident>>, <<v.fields[k].ident>> >>)] >>

\* The scalar entities of enum field e that belong to a variant other than the one the
\* discriminant holds.
OtherVariantScalars(e) ==
    LET path == nodes[e[2].node].path
        active == nodes[e[2].fields[1].node].data.s[1]
    IN {id \in EntitiesOf(e[2]) \ {e[2].fields[1].node} :
           /\ nodes[id].scalar /= <<>>
           /\ nodes[id].path[Len(path) + 1] /= <<active>>}

\* C23: read on an enum field gives the case of the variant the discriminant holds,
\* with the values of that variant's field nodes; the values stored for the other
\* variants do not affect the result.
C23_ReadActiveVariant ==
    \A e \in EnumFields :
        LET r == read_world(nodes, e[1], e[2]) IN
        /\ r = Ok(ReadAt(e[1], nodes[e[2].node].path))
        /\ r.v[1] = nodes[e[2].fields[1].node].data
        /\ \A id \in OtherVariantScalars(e) : \A v \in {FloatV(5), StrV(<<"red">>)} :
              read_world([nodes EXCEPT ![id].data = v], e[1], e[2]) = r

\* A variant with several fields is active and one of its fields was edited.
C23_Witness ==
    \E e \in EnumFields :
        LET r == read_world(nodes, e[1], e[2]) IN
        /\ r.ok
        /\ r.v[1] = VariantV("Rgb")
        /\ \E k \in 1..Len(r.v[2]) : r.v[2][k] /= r.v[2][1]
        /\ OtherVariantScalars(e) /= {}

-----------------------------------------------------------------------------

\* C24: the entries serialize_all writes are in ascending order of the path of their
\* nodes, and the output is the same for every order in which the registry of types
\* hands out the types; to_string returns that output.
C24_SortedDump ==
    LET keys == sort_by_path(keys_with_types(nodes, serde_types, 1), 1, <<>>)
        dump == serialize_all(nodes, serde_types)
    IN /\ \A k \in 1..(Len(keys) - 1) : PathCmp(keys[k].path, keys[k + 1].path, 1) < 0
       /\ \A k \in 1..Len(dump) : dump[k].key = path_join(keys[k].path, 1)
       /\ \A o2 \in TypeOrders(serde_types) \ {serde_types} : serialize_all(nodes, o2) = dump
       /\ (out.op = "to_string" /\ out.ok) => out.result = dump

\* A dump was taken while the registry could scan the types in two orders that find
\* the keys in different sequences.
C24_Witness ==
    /\ out.op = "to_string" /\ out.ok
    /\ Len(out.result) >= 2
    /\ \E o1 \in TypeOrders(serde_types), o2 \in TypeOrders(serde_types) :
          keys_with_types(nodes, o1, 1) /= keys_with_types(nodes, o2, 1)

-----------------------------------------------------------------------------

\* The composite fields of every registered root, as <<type, handle>>.
CompositeFields ==
    UNION {{f \in Fields(C, root_field[C]) : KindOf(f[1]) \in {"struct", "enum"}} :
              C \in {D \in RootTypes : Registered(D)}}

\* C25: a root node has no parent; every other node has one parent, an entity created
\* before it, so the parent links form a forest; the children of each composite node,
\* the nodes whose parent link points to it, are exactly the nodes of its fields.
C25_ParentForest ==
    /\ \A id \in 1..Len(nodes) :
         IF nodes[id].root THEN nodes[id].parent = NoEntity
         ELSE nodes[id].parent \in 1..(id - 1)
    /\ \A f \in CompositeFields :
         {id \in 1..Len(nodes) : nodes[id].parent = f[2].node}
            = {f[2].fields[k].node : k \in 1..Len(f[2].fields)}
    /\ \A id \in ScalarNodes(nodes) : \A k \in 1..Len(nodes) : nodes[k].parent /= id

\* Two roots are spawned, one of them with nodes three levels below the root.
C25_Witness ==
    /\ Cardinality(RootNodes(nodes)) = 2
    /\ \E id \in 1..Len(nodes) :
          /\ nodes[id].parent /= NoEntity
          /\ nodes[nodes[id].parent].parent /= NoEntity
          /\ nodes[nodes[nodes[id].parent].parent].parent /= NoEntity

-----------------------------------------------------------------------------

\* C26: ReadConfig::changed completes without a panic for every registered root: every
\* entity that changed looks up through the changed query of the root holds the
\* components that query requires.
C26_ChangedCompletes ==
    \A C \in RootTypes : Registered(C) => ChangedOf(nodes, C).ok

-----------------------------------------------------------------------------

\* C27: in every deserialize, each next_key of visit_map that is followed by another
\* call is followed by one next_value, and each next_value by a next_key: one value is
\* taken after every key read, known or not, before the next key is asked for.
C27_KeyValueAlternation ==
    manager_type /= NoManager =>
    \A order \in TypeOrders(serde_types) :
        LET keys == keys_with_types(nodes, order, 1) IN
        \A input \in LoadInputs :
            LET calls == visit_map(nodes, keys, input, 1, 0).calls IN
            \A k \in 1..(Len(calls) - 1) :
                calls[k + 1] = (IF calls[k] = "next_key" THEN "next_value" ELSE "next_key")

-----------------------------------------------------------------------------
(* Root keys with a "." in them.  init_config_with takes any String as key. *)

\* Root types and keys of a second application: a struct and the struct nested in it
\* are both registered as roots, one of them under a key that contains a ".".
DottedRootTypes == {"Window", "VideoSettings"}
DottedRootKeys == {<<"win">>, <<"win", ".", "video">>}

InitDotted ==
    /\ nodes = <<>>
    /\ manager_type = NoManager
    /\ root_field = [C \in DottedRootTypes |-> NoHandle]
    /\ serde_types = <<>>
    /\ last_value = [C \in DottedRootTypes |-> None]
    /\ last_seen = [C \in DottedRootTypes |-> None]
    /\ out = Out("new", "", TRUE, "")
    /\ steps = 0
    /\ inits = 0

InitConfigWithDotted == \E M \in ManagerTypes, C \in DottedRootTypes, key \in DottedRootKeys :
                          init_config_with(M, C, key)

NextDotted == InitConfigWithDotted \/ Dump \/ Load

SpecDotted == InitDotted /\ [][NextDotted]_vars

\* C28: whatever root keys were accepted, the entries of a dump have distinct keys, the
\* key of each entry split at "." is the path of the node the entry was written from,
\* and a load finds that node for the key.
C28_KeysRoundTrip ==
    manager_type /= NoManager =>
    LET keys == sort_by_path(keys_with_types(nodes, serde_types, 1), 1, <<>>)
        dump == serialize_all(nodes, serde_types)
    IN \A k \in 1..Len(dump) :
          /\ \A j \in 1..Len(dump) : j /= k => dump[j].key /= dump[k].key
          /\ key_split(dump[k].key, 1, <<>>) = keys[k].path
          /\ index_map_by_de_key(keys, dump[k].key) = keys[k].entity

-----------------------------------------------------------------------------

\* C29: a registration call that fails with a panic creates no node, calls no manager
\* hook and leaves the registered keys and the registered root types as they were.
C29_FailedCallChangesNothing ==
    [][(inits' = inits + 1 /\ ~out'.ok)
       => /\ nodes' = nodes
          /\ serde_types' = serde_types
          /\ root_field' = root_field
          /\ manager_type' = manager_type]_vars

-----------------------------------------------------------------------------

\* C30: as long as every registration call has succeeded, the nodes with the root
\* marker are one per registered key: each has the path [key], no parent link and no
\* relevance link, and is the node of the spawn handle stored for one root type, and
\* every stored spawn handle has such a node.
C30_RootNodes ==
    (manager_type /= NoManager
     /\ inits = Cardinality({C \in RootTypes : Registered(C)}))
    => /\ {nodes[id].path : id \in RootNodes(nodes)} = {<<key>> : key \in manager_type.root_keys}
       /\ Cardinality(RootNodes(nodes)) = Cardinality(manager_type.root_keys)
       /\ \A id \in RootNodes(nodes) :
            /\ nodes[id].parent = NoEntity
            /\ nodes[id].dependency = NoEntity
            /\ Cardinality({C \in RootTypes : root_field[C].node = id}) = 1
       /\ \A C \in RootTypes : Registered(C) => root_field[C].node \in RootNodes(nodes)

\* Two registrations were made and both succeeded.
C30_Witness ==
    /\ inits = 2
    /\ \A C \in RootTypes : Registered(C)
    /\ Cardinality(RootNodes(nodes)) = 2
    /\ out.op /= "init_config_with"

====
